---- MODULE Spec2Model ----
(***************************************************************************)
(* hybrid_android_helper (src/src/main.rs): classification of a FAT        *)
(* partition as one of four CoreELEC/EmuELEC subsystems, and the scan of   *)
(* /dev/block for the lowest-numbered partition of each hybrid subsystem.  *)
(*                                                                         *)
(* Byte strings (&[u8]) are sequences of one-character strings.  Results   *)
(* are records: Ok(v) / Err, Option values are the string "None" or the    *)
(* value (classifier) and <<"Some", n>> / <<"None">> (id_from_bytes).      *)
(* Diagnostics written with eprintln! are not part of the state.  A line   *)
(* printed by scan is the pair <<ce, ee>> of its two numbers.              *)
(***************************************************************************)
EXTENDS Integers, Sequences, FiniteSets, TLC

VARIABLES
    pc,               \* position of the operation under analysis
    overflow_checks,  \* build profile: TRUE = arithmetic overflow panics
    buffer,           \* argument of check_buffer_cfgload_system
    found,            \* its return value
    bytes,            \* argument of id_from_bytes
    parsed,           \* state of id_from_bytes at its return (or panic)
    path,             \* what lies behind the path given to check-system
    cfgload,          \* the marker file as read by check_fat_file_cfgload_system
    result,           \* return value of check_path_system
    stdout,           \* lines printed with println!
    exit,             \* what main / scan returned
    listed,           \* /dev/block entries the ReadDir iterator has yielded
    cand,             \* the entry handled by the last iteration of scan
    ce,               \* scan: running minimum for Hybrid CoreELEC
    ee                \* scan: running minimum for Hybrid EmuELEC

vars == <<pc, overflow_checks, buffer, found, bytes, parsed, path, cfgload,
          result, stdout, exit, listed, cand, ce, ee>>

(***************************************************************************)
(* Bounds of the model.                                                    *)
(***************************************************************************)
MaxChunks == 2      \* a marker file is at most this many chunks long
MaxExtra == 1       \* directory entries beside one entry per required name
MaxSuffixLen == 3   \* length of the byte strings given to id_from_bytes
MaxListing == 4     \* entries /dev/block yields to one scan
WordBits == 8       \* width of usize in the model (64 or 32 on a target)

(***************************************************************************)
(* Result and Option values.                                               *)
(***************************************************************************)
Ok(v) == [tag |-> "Ok", val |-> v]

Err == [tag |-> "Err", val |-> "IOError"]

None == "None"

Some(n) == <<"Some", n>>

NoIndex == <<"None">>

(***************************************************************************)
(* enum SubSystem and its tables.                                          *)
(***************************************************************************)
SubSystem == {"OfficialCoreELEC", "OfficialEmuELEC", "HybridCoreELEC", "HybridEmuELEC"}

\* the array with each EmuELEC class before its CoreELEC class
SUBSYSTEMS_EmuFirst == <<"OfficialEmuELEC", "OfficialCoreELEC", "HybridEmuELEC", "HybridCoreELEC">>

SUBSYSTEMS == <<"OfficialCoreELEC", "OfficialEmuELEC", "HybridCoreELEC", "HybridEmuELEC">>

as_str(s) ==
    CASE s = "OfficialCoreELEC" -> "Official CoreELEC"
      [] s = "OfficialEmuELEC"  -> "Official EmuELEC"
      [] s = "HybridCoreELEC"   -> "Hybrid CoreELEC"
      [] s = "HybridEmuELEC"    -> "Hybrid EmuELEC"

OnEMMC == <<" ", "o", "n", " ", "e", "M", "M", "C">>

HybridELEC == <<"H", "y", "b", "r", "i", "d", "E", "L", "E", "C", " ">>

cfgload_flag(s) ==
    CASE s = "OfficialCoreELEC" -> <<"C", "o", "r", "e", "E", "L", "E", "C">> \o OnEMMC
      [] s = "OfficialEmuELEC"  -> <<"E", "m", "u", "E", "L", "E", "C">> \o OnEMMC
      [] s = "HybridCoreELEC"   -> HybridELEC \o <<"(", "C", "E", ")">> \o OnEMMC
      [] s = "HybridEmuELEC"    -> HybridELEC \o <<"(", "E", "E", ")">> \o OnEMMC

(***************************************************************************)
(* check_buffer_cfgload_system: slice::windows, Iterator::position and the *)
(* loop over SubSystem::iterator().                                        *)
(***************************************************************************)
\* windows that leave out the last position
windows_short(buf, n) ==
    IF n > Len(buf) THEN <<>>
    ELSE [i \in 1..(Len(buf) - n) |-> SubSeq(buf, i, i + n - 1)]

windows(buf, n) ==
    IF n > Len(buf) THEN <<>>
    ELSE [i \in 1..(Len(buf) - n + 1) |-> SubSeq(buf, i, i + n - 1)]

\* position(|window| window == flag): index of the first matching window
position(ws, flag) ==
    LET hits == {i \in 1..Len(ws) : ws[i] = flag}
    IN  IF hits = {} THEN NoIndex
        ELSE Some(CHOOSE i \in hits : \A j \in hits : i <= j)

RECURSIVE BufferLoop(_, _)
BufferLoop(buf, k) ==
    IF k > Len(SUBSYSTEMS) THEN None
    ELSE LET flag == cfgload_flag(SUBSYSTEMS[k])
         IN  IF position(windows(buf, Len(flag)), flag) # NoIndex
             THEN SUBSYSTEMS[k]
             ELSE BufferLoop(buf, k + 1)

check_buffer_cfgload_system(buf) == BufferLoop(buf, 1)

(***************************************************************************)
(* Marker-file contents: concatenations of flags, of text that is no flag  *)
(* and of near misses (wrong case, a flag cut short).                      *)
(***************************************************************************)
Chunks ==
    { cfgload_flag(s) : s \in SubSystem } \cup
    { <<"e", "c", "h", "o", " ">>,
      <<"c", "o", "r", "e", "e", "l", "e", "c">> \o OnEMMC,
      HybridELEC \o <<"(", "C", "E", ")", " ", "o", "n">> }

RECURSIVE Concat(_)
Concat(chunks) ==
    IF chunks = <<>> THEN <<>> ELSE Head(chunks) \o Concat(Tail(chunks))

Buffers ==
    { Concat(cs) : cs \in UNION { [1..n -> Chunks] : n \in 0..MaxChunks } }

(***************************************************************************)
(* The FAT root directory as the driver lists it: entries (name, kind),    *)
(* or an item whose read failed.  The marker file as its read returns it.  *)
(***************************************************************************)
Entry(n, k) == [name |-> n, kind |-> k]

IOErrEntry == Entry("", "ioerr")

is_file(e) == e.kind = "file"

is_dir(e) == e.kind = "dir"

File(ok, data) == [ok |-> ok, data |-> data]

NotRead == [ok |-> FALSE, data |-> <<"-">>]

MarkerFiles == {File(FALSE, <<>>)} \cup {File(TRUE, b) : b \in Buffers}

check_fat_file_cfgload_system(f) ==
    IF ~f.ok THEN Err ELSE Ok(check_buffer_cfgload_system(f.data))

check_fat_entry_cfgload_system(f) == check_fat_file_cfgload_system(f)

(***************************************************************************)
(* check_fat_dir_system: the five locals, the match of one entry, the loop *)
(* over dir.iter() and the test after it.                                  *)
(***************************************************************************)
DirLocals ==
    [cfgload |-> FALSE, config_ini |-> FALSE, device_trees |-> FALSE,
     kernel_img |-> FALSE, system |-> FALSE]

MatchEntry(st, e) ==
    CASE e.name = "cfgload"      -> [st EXCEPT !.cfgload = is_file(e)]
      [] e.name = "config.ini"   -> [st EXCEPT !.config_ini = is_file(e)]
      [] e.name = "device_trees" -> [st EXCEPT !.device_trees = is_dir(e)]
      [] e.name = "kernel.img"   -> [st EXCEPT !.kernel_img = is_file(e)]
      [] e.name = "SYSTEM"       -> [st EXCEPT !.system = is_file(e)]
      [] OTHER                   -> st

RECURSIVE DirLoop(_, _, _)
DirLoop(dir, i, st) ==
    IF i > Len(dir) THEN [err |-> FALSE, st |-> st]
    ELSE IF dir[i] = IOErrEntry THEN [err |-> TRUE, st |-> st]
    ELSE DirLoop(dir, i + 1, MatchEntry(st, dir[i]))

\* the test without kernel_img
RequiredEntries_NoKernel(st) == st.config_ini /\ st.device_trees /\ st.system

RequiredEntries(st) ==
    st.config_ini /\ st.device_trees /\ st.kernel_img /\ st.system

\* whether the pass over dir ends in the read of the marker file
ReadsMarker(dir) ==
    LET r == DirLoop(dir, 1, DirLocals)
    IN  ~r.err /\ RequiredEntries(r.st) /\ r.st.cfgload

check_fat_dir_system(dir, f) ==
    LET r == DirLoop(dir, 1, DirLocals)
    IN  IF r.err THEN Err
        ELSE IF RequiredEntries(r.st) /\ r.st.cfgload
             THEN check_fat_entry_cfgload_system(f)
             ELSE Ok(None)

(***************************************************************************)
(* What a path leads to: whether File::open succeeds, whether the FAT      *)
(* filesystem opens, and the root directory.                               *)
(***************************************************************************)
Path(open, fat, dir) == [open |-> open, fat |-> fat, dir |-> dir]

check_fat_fs_system(p, f) == check_fat_dir_system(p.dir, f)

check_file_system(p, f) == IF ~p.fat THEN Err ELSE check_fat_fs_system(p, f)

file_open_checked(p) == IF p.open THEN Ok(p) ELSE Err

check_path_system(p, f) ==
    IF file_open_checked(p) = Err THEN Err ELSE check_file_system(p, f)

check_dir_entry_system(p, f) == check_path_system(p, f)

PathReadsMarker(p) == p.open /\ p.fat /\ ReadsMarker(p.dir)

(***************************************************************************)
(* id_from_bytes.  usize arithmetic is modulo Word; with overflow checks   *)
(* compiled in (the dev profile) an overflowing +, * panics, without them  *)
(* (the release profile) it wraps.                                         *)
(***************************************************************************)
Word == 2 ^ WordBits

NoDigit == 0 - 1

DigitValue(b) ==
    CASE b = "0" -> 0
      [] b = "1" -> 1
      [] b = "2" -> 2
      [] b = "3" -> 3
      [] b = "4" -> 4
      [] b = "5" -> 5
      [] b = "6" -> 6
      [] b = "7" -> 7
      [] b = "8" -> 8
      [] b = "9" -> 9
      [] OTHER   -> NoDigit

IdLocals == [status |-> "run", id |-> 0, multiply |-> 1, wrapped |-> FALSE]

\* one pass of the loop body: id += digit * multiply; multiply *= 10
IdStep(st, b, checks) ==
    LET d    == DigitValue(b)
        prod == d * st.multiply
        sum  == st.id + (prod % Word)
        mul  == st.multiply * 10
        over == prod >= Word \/ sum >= Word \/ mul >= Word
    IN  IF d = NoDigit THEN [st EXCEPT !.status = "none"]
        ELSE IF over /\ checks THEN [st EXCEPT !.status = "panic"]
        ELSE [st EXCEPT !.id = sum % Word, !.multiply = mul % Word,
                        !.wrapped = st.wrapped \/ over]

\* bytes.iter().rev(): k counts the bytes taken from the end
RECURSIVE IdLoop(_, _, _, _)
IdLoop(bs, k, st, checks) ==
    IF st.status # "run" THEN st
    ELSE IF k > Len(bs) THEN [st EXCEPT !.status = "some"]
    ELSE IdLoop(bs, k + 1, IdStep(st, bs[Len(bs) - k + 1], checks), checks)

id_from_bytes(bs, checks) == IdLoop(bs, 1, IdLocals, checks)

SuffixBytes == {"0", "1", "2", "3", "4", "5", "6", "7", "8", "9", "a"}

Suffixes == UNION { [1..n -> SuffixBytes] : n \in 0..MaxSuffixLen }

(***************************************************************************)
(* main: the check-system command.                                         *)
(***************************************************************************)
\* an error of check_path_system taken for "no class"
MainExit_Unwrapped(r) ==
    IF r.tag = "Ok" /\ r.val # None THEN "Ok" ELSE "InvalidSystem"

MainExit(r) ==
    IF r.tag = "Err" THEN "IOError"
    ELSE IF r.val = None THEN "InvalidSystem"
    ELSE "Ok"

MainStdout(r) ==
    IF r.tag = "Ok" /\ r.val # None THEN <<as_str(r.val)>> ELSE <<>>

(***************************************************************************)
(* Root directories: one entry at most per required name, in the order of  *)
(* the match arms, with up to MaxExtra further items before and after.     *)
(***************************************************************************)
Canon == <<"cfgload", "config.ini", "device_trees", "kernel.img", "SYSTEM">>

Present(e) == e.kind # "absent"

BaseDirs ==
    { SelectSeq([i \in 1..5 |-> Entry(Canon[i], ch[i])], Present) :
        ch \in [1..5 -> {"absent", "file", "dir"}] }

ExtraEntries ==
    { Entry(n, k) : n \in {Canon[i] : i \in 1..5}, k \in {"file", "dir"} }
        \cup {Entry("system", "file"), IOErrEntry}

ExtraSeqs(n) == UNION { [1..k -> ExtraEntries] : k \in 0..n }

Idle == "-"

(***************************************************************************)
(* Specification of check_buffer_cfgload_system on every buffer.           *)
(***************************************************************************)
InitBuffer ==
    /\ pc = "buffer"
    /\ buffer \in Buffers
    /\ found = Idle
    /\ overflow_checks = FALSE
    /\ bytes = <<>> /\ parsed = IdLocals
    /\ path = Path(FALSE, FALSE, <<>>) /\ cfgload = NotRead /\ result = Err
    /\ stdout = <<>> /\ exit = Idle
    /\ listed = {} /\ cand = Idle /\ ce = 0 /\ ee = 0

CheckBuffer ==
    /\ pc = "buffer"
    /\ found' = check_buffer_cfgload_system(buffer)
    /\ pc' = "returned"
    /\ UNCHANGED <<overflow_checks, buffer, bytes, parsed, path, cfgload,
                   result, stdout, exit, listed, cand, ce, ee>>

NextBuffer == CheckBuffer

SpecBuffer == InitBuffer /\ [][NextBuffer]_vars

(***************************************************************************)
(* Specification of id_from_bytes on every byte string, in both profiles.  *)
(***************************************************************************)
InitParse ==
    /\ pc = "parse"
    /\ overflow_checks \in BOOLEAN
    /\ bytes \in Suffixes
    /\ parsed = IdLocals
    /\ buffer = <<>> /\ found = Idle
    /\ path = Path(FALSE, FALSE, <<>>) /\ cfgload = NotRead /\ result = Err
    /\ stdout = <<>> /\ exit = Idle
    /\ listed = {} /\ cand = Idle /\ ce = 0 /\ ee = 0

Parse ==
    /\ pc = "parse"
    /\ parsed' = id_from_bytes(bytes, overflow_checks)
    /\ pc' = "returned"
    /\ UNCHANGED <<overflow_checks, buffer, found, bytes, path, cfgload,
                   result, stdout, exit, listed, cand, ce, ee>>

NextParse == Parse

SpecParse == InitParse /\ [][NextParse]_vars

(***************************************************************************)
(* Specification of the program: main with the check-system command.       *)
(***************************************************************************)
Init ==
    /\ pc = "main"
    /\ \/ path = Path(FALSE, FALSE, <<>>)
       \/ path = Path(TRUE, FALSE, <<>>)
       \/ \E front \in ExtraSeqs(MaxExtra), base \in BaseDirs :
            \E back \in ExtraSeqs(MaxExtra - Len(front)) :
              path = Path(TRUE, TRUE, front \o base \o back)
    /\ cfgload = NotRead
    /\ result = Err
    /\ stdout = <<>>
    /\ exit = Idle
    /\ overflow_checks = FALSE
    /\ buffer = <<>> /\ found = Idle
    /\ bytes = <<>> /\ parsed = IdLocals
    /\ listed = {} /\ cand = Idle /\ ce = 0 /\ ee = 0

Main ==
    /\ pc = "main"
    /\ \E f \in (IF PathReadsMarker(path) THEN MarkerFiles ELSE {NotRead}) :
          LET r == check_path_system(path, f)
          IN  /\ cfgload' = f
              /\ result' = r
              /\ stdout' = MainStdout(r)
              /\ exit' = MainExit(r)
    /\ pc' = "exit"
    /\ UNCHANGED <<overflow_checks, buffer, found, bytes, parsed, path,
                   listed, cand, ce, ee>>

Next == Main

Spec == Init /\ [][Next]_vars

(***************************************************************************)
(* scan: the names /dev/block may hold, what each device node may lead to, *)
(* and one pass of the loop over the ReadDir iterator.  The iterator       *)
(* yields the entries in any order, each name once.                        *)
(***************************************************************************)
Prefix == <<"m", "m", "c", "b", "l", "k", "0", "p">>

ScanSuffixes ==
    { <<"2">>, <<"3">>, <<"4">>, <<"7">>, <<"9">>, <<"0">>, <<>>, <<"1", "a">>,
      <<"0", "0", "1">>, <<"2", "5", "8">> }

DevNames ==
    { Prefix \o sfx : sfx \in ScanSuffixes }
        \cup { <<"m", "m", "c", "b", "l", "k", "1", "p", "1">> }

GoodDir == [i \in 1..5 |-> Entry(Canon[i], IF i = 3 THEN "dir" ELSE "file")]

Device(p, f) == [path |-> p, file |-> f]

NoDevice == Device(Path(FALSE, FALSE, <<>>), NotRead)

DevImages ==
    { Device(Path(TRUE, TRUE, GoodDir), File(TRUE, cfgload_flag(x))) : x \in
          {"HybridCoreELEC", "HybridEmuELEC", "OfficialCoreELEC"} } \cup
    { Device(Path(FALSE, FALSE, <<>>), NotRead),
      Device(Path(TRUE, FALSE, <<>>), NotRead),
      Device(Path(TRUE, TRUE, GoodDir), File(FALSE, <<>>)) }

starts_with(name, prefix) ==
    Len(name) >= Len(prefix) /\ SubSeq(name, 1, Len(prefix)) = prefix

\* &name[len_prefix..]
SuffixOf(name) == SubSeq(name, Len(Prefix) + 1, Len(name))

ScanLocals(c, e) == [ce |-> c, ee |-> e, err |-> FALSE]

\* a match that returns the error of check_dir_entry_system (the ? operator)
ScanArm_Propagate(st, r, id) ==
    CASE r = Ok("HybridCoreELEC") ->
            IF st.ce = 0 \/ st.ce > id THEN [st EXCEPT !.ce = id] ELSE st
      [] r = Ok("HybridEmuELEC") ->
            IF st.ee = 0 \/ st.ee > id THEN [st EXCEPT !.ee = id] ELSE st
      [] r = Err -> [st EXCEPT !.err = TRUE]
      [] OTHER -> st

\* a match that keeps the first index found
ScanArm_First(st, r, id) ==
    CASE r = Ok("HybridCoreELEC") ->
            IF st.ce = 0 THEN [st EXCEPT !.ce = id] ELSE st
      [] r = Ok("HybridEmuELEC") ->
            IF st.ee = 0 THEN [st EXCEPT !.ee = id] ELSE st
      [] OTHER -> st

\* match check_dir_entry_system(entry) { ... }
ScanArm(st, r, id) ==
    CASE r = Ok("HybridCoreELEC") ->
            IF st.ce = 0 \/ st.ce > id THEN [st EXCEPT !.ce = id] ELSE st
      [] r = Ok("HybridEmuELEC") ->
            IF st.ee = 0 \/ st.ee > id THEN [st EXCEPT !.ee = id] ELSE st
      [] OTHER -> st

\* id_from_bytes(&name[len_prefix..]) of every name, in both profiles
IdOfName == [name \in DevNames |-> [checks \in BOOLEAN |->
                id_from_bytes(SuffixOf(name), checks)]]

\* check_dir_entry_system(entry) of every device
SystemOfDevice == [dev \in DevImages |-> check_dir_entry_system(dev.path, dev.file)]

\* what the history keeps of an entry: its name and the class found on it
Listed(name, class) == [name |-> name, class |-> class]

ClassOf(r) == IF r.tag = "Ok" /\ r.val \in SubSystem THEN r.val ELSE Idle

InitScan ==
    /\ pc = "read_dir"
    /\ overflow_checks \in BOOLEAN
    /\ listed = {} /\ cand = Idle /\ ce = 0 /\ ee = 0
    /\ path = NoDevice.path /\ cfgload = NotRead /\ result = Err
    /\ stdout = <<>> /\ exit = Idle
    /\ buffer = <<>> /\ found = Idle
    /\ bytes = <<>> /\ parsed = IdLocals

\* read_dir_checked("/dev/block")? returns the error
ReadDirFails ==
    /\ pc = "read_dir"
    /\ pc' = "returned"
    /\ exit' = "IOError"
    /\ cand' = "read_dir"
    /\ UNCHANGED <<overflow_checks, buffer, found, bytes, parsed, path, cfgload,
                   result, stdout, listed, ce, ee>>

ReadDirOk ==
    /\ pc = "read_dir"
    /\ pc' = "loop"
    /\ UNCHANGED <<overflow_checks, buffer, found, bytes, parsed, path, cfgload,
                   result, stdout, exit, listed, cand, ce, ee>>

\* the iterator yields Err: entry.map_err(..)? returns the error
EntryFails ==
    /\ pc = "loop"
    /\ pc' = "returned"
    /\ exit' = "IOError"
    /\ cand' = "entry"
    /\ path' = NoDevice.path /\ cfgload' = NotRead /\ result' = Err
    /\ UNCHANGED <<overflow_checks, buffer, found, bytes, parsed, stdout,
                   listed, ce, ee>>

\* the loop body for an entry that is skipped by a continue, or that panics
SkipEntry ==
    /\ pc = "loop"
    /\ Cardinality(listed) < MaxListing
    /\ \E name \in DevNames \ {e.name : e \in listed} :
          LET p == IdOfName[name][overflow_checks]
          IN  /\ \/ ~starts_with(name, Prefix)
                 \/ p.status # "some"
                 \/ p.id = 0
              /\ pc' = IF starts_with(name, Prefix) /\ p.status = "panic"
                       THEN "panic" ELSE "loop"
              /\ listed' = listed \cup {Listed(name, Idle)}
    /\ cand' = "skipped"
    /\ path' = NoDevice.path /\ cfgload' = NotRead /\ result' = Err
    /\ UNCHANGED <<overflow_checks, buffer, found, bytes, parsed, stdout, exit,
                   ce, ee>>

\* the loop body for an entry that reaches check_dir_entry_system
CheckEntry ==
    /\ pc = "loop"
    /\ Cardinality(listed) < MaxListing
    /\ \E name \in DevNames \ {e.name : e \in listed}, dev \in DevImages :
          LET p  == IdOfName[name][overflow_checks]
              r  == SystemOfDevice[dev]
              st == ScanArm(ScanLocals(ce, ee), r, p.id)
          IN  /\ starts_with(name, Prefix)
              /\ p.status = "some"
              /\ p.id # 0
              /\ path' = dev.path /\ cfgload' = dev.file /\ result' = r
              /\ ce' = st.ce /\ ee' = st.ee
              /\ pc' = IF st.err THEN "returned" ELSE "loop"
              /\ exit' = IF st.err THEN "IOError" ELSE exit
              /\ listed' = listed \cup {Listed(name, ClassOf(r))}
    /\ cand' = "checked"
    /\ UNCHANGED <<overflow_checks, buffer, found, bytes, parsed, stdout>>

\* the iterator is exhausted: println!("{ce} {ee}"); Ok(())
EndOfListing ==
    /\ pc = "loop"
    /\ stdout' = <<<<ce, ee>>>>
    /\ exit' = "Ok"
    /\ pc' = "returned"
    /\ cand' = "end"
    /\ path' = NoDevice.path /\ cfgload' = NotRead /\ result' = Err
    /\ UNCHANGED <<overflow_checks, buffer, found, bytes, parsed, listed, ce, ee>>

NextScan ==
    \/ ReadDirFails
    \/ ReadDirOk
    \/ EntryFails
    \/ SkipEntry
    \/ CheckEntry
    \/ EndOfListing

SpecScan == InitScan /\ [][NextScan]_vars

(***************************************************************************)
(* Vocabulary of the properties, stated without the code's loops.          *)
(***************************************************************************)
\* flag occurs in buf as a contiguous byte sequence
Occurs(flag, buf) ==
    \E skip \in 0..(Len(buf) - Len(flag)) :
        \A i \in 1..Len(flag) : buf[skip + i] = flag[i]

\* the listing holds an entry of this name and kind
Holds(dir, n, k) == \E i \in 1..Len(dir) : dir[i] = Entry(n, k)

\* every entry of this name in the listing has this kind, and there is one
HoldsOnly(dir, n, k) ==
    /\ Holds(dir, n, k)
    /\ \A i \in 1..Len(dir) : dir[i].name = n => dir[i].kind = k

ListingFails(dir) == \E i \in 1..Len(dir) : dir[i] = IOErrEntry

Required ==
    { <<"cfgload", "file">>, <<"config.ini", "file">>, <<"device_trees", "dir">>,
      <<"kernel.img", "file">>, <<"SYSTEM", "file">> }

Classified == pc = "exit" /\ path.open /\ path.fat

IsClass(r) == r.tag = "Ok" /\ r.val \in SubSystem

Priority == <<"OfficialCoreELEC", "OfficialEmuELEC", "HybridCoreELEC", "HybridEmuELEC">>

NoEarlierFlag(k, buf) ==
    \A j \in 1..(k - 1) : ~Occurs(cfgload_flag(Priority[j]), buf)

\* the listing is read to its end and holds each required name, always with
\* the required kind
MeetsLayout(dir) ==
    /\ \A q \in Required : HoldsOnly(dir, q[1], q[2])
    /\ ~ListingFails(dir)

\* the labels check-system prints
Label(x) ==
    CASE x = "OfficialCoreELEC" -> "Official CoreELEC"
      [] x = "OfficialEmuELEC"  -> "Official EmuELEC"
      [] x = "HybridCoreELEC"   -> "Hybrid CoreELEC"
      [] x = "HybridEmuELEC"    -> "Hybrid EmuELEC"

\* one of open, FAT open, entry read, marker read has failed
IOStepFails ==
    \/ ~path.open
    \/ ~path.fat
    \/ ListingFails(path.dir)
    \/ cfgload # NotRead /\ ~cfgload.ok

\* the listing in the order p
Permuted(dir, p) == [i \in 1..Len(dir) |-> dir[p[i]]]

(***************************************************************************)
(* C1: check_fat_dir_system returns a class only if the listing holds      *)
(* config.ini, kernel.img, SYSTEM and cfgload as files and device_trees as *)
(* a directory; when one of the five is missing or of the other kind and   *)
(* the listing is read to its end, the result is Ok(None), whatever the    *)
(* marker file holds.                                                      *)
(***************************************************************************)
C1_ClassOnlyWithLayout ==
    Classified =>
        /\ IsClass(result) => \A q \in Required : Holds(path.dir, q[1], q[2])
        /\ (\E q \in Required : ~Holds(path.dir, q[1], q[2]))
               /\ ~ListingFails(path.dir)
             => result = Ok(None)

\* kernel.img is listed as a directory, the four other entries are right
C1_Witness ==
    /\ Classified
    /\ Holds(path.dir, "kernel.img", "dir")
    /\ \A q \in Required \ {<<"kernel.img", "file">>} : Holds(path.dir, q[1], q[2])
    /\ result = Ok(None)

(***************************************************************************)
(* C2 as stated: in a directory that meets the layout, a marker file that  *)
(* contains the flag of class X anywhere classifies as X.                  *)
(***************************************************************************)
C2_AnyFlagClassifies ==
    Classified /\ MeetsLayout(path.dir) /\ cfgload.ok =>
        \A x \in SubSystem :
            Occurs(cfgload_flag(x), cfgload.data) => result = Ok(x)

(***************************************************************************)
(* C2 amended: in a directory that meets the layout and is read without    *)
(* I/O error, a marker file that contains the flag of class X anywhere and *)
(* no flag of a class before X in the order of SubSystem::iterator()       *)
(* classifies as X.                                                        *)
(***************************************************************************)
C2_FirstFlagClassifies ==
    Classified /\ MeetsLayout(path.dir) /\ cfgload.ok =>
        \A k \in 1..4 :
            Occurs(cfgload_flag(Priority[k]), cfgload.data)
              /\ NoEarlierFlag(k, cfgload.data)
            => result = Ok(Priority[k])

\* the Hybrid CoreELEC flag after other bytes, at the very end of the file
C2_Witness ==
    /\ Classified /\ MeetsLayout(path.dir) /\ cfgload.ok
    /\ LET flag == cfgload_flag("HybridCoreELEC")
           n    == Len(cfgload.data)
       IN  /\ n > Len(flag)
           /\ SubSeq(cfgload.data, n - Len(flag) + 1, n) = flag
    /\ result = Ok("HybridCoreELEC")

C8_OrderIndependent ==
    Classified =>
        \A f \in (IF cfgload # NotRead THEN {cfgload}
                  ELSE {File(TRUE, <<>>), File(TRUE, cfgload_flag("HybridEmuELEC"))}) :
            \A p \in Permutations(1..Len(path.dir)) :
                check_fat_dir_system(Permuted(path.dir, p), f)
                    = check_fat_dir_system(path.dir, f)

(***************************************************************************)
(* C9: check_buffer_cfgload_system returns the first class, in the order   *)
(* Official CoreELEC, Official EmuELEC, Hybrid CoreELEC, Hybrid EmuELEC,   *)
(* whose flag occurs in the buffer, and None when no flag occurs (an empty *)
(* buffer, a buffer shorter than every flag).                              *)
(***************************************************************************)
C9_FirstInPriority ==
    pc = "returned" =>
        /\ \A k \in 1..4 :
              found = Priority[k]
                <=> Occurs(cfgload_flag(Priority[k]), buffer) /\ NoEarlierFlag(k, buffer)
        /\ found = None <=> \A x \in SubSystem : ~Occurs(cfgload_flag(x), buffer)
        /\ Len(buffer) < 15 => found = None

\* the Hybrid EmuELEC flag and then the Official EmuELEC flag: Official wins
C9_Witness ==
    /\ pc = "returned"
    /\ buffer = cfgload_flag("HybridEmuELEC") \o cfgload_flag("OfficialEmuELEC")
    /\ found = "OfficialEmuELEC"

(***************************************************************************)
(* Decimal numerals, read from the left.                                   *)
(***************************************************************************)
DigitChars == <<"0", "1", "2", "3", "4", "5", "6", "7", "8", "9">>

IsDigit(b) == \E d \in 1..10 : DigitChars[d] = b

AllDigits(bs) == \A i \in 1..Len(bs) : IsDigit(bs[i])

RECURSIVE Decimal(_)
Decimal(bs) ==
    IF bs = <<>> THEN 0
    ELSE 10 * Decimal(SubSeq(bs, 1, Len(bs) - 1))
           + (CHOOSE d \in 0..9 : DigitChars[d + 1] = bs[Len(bs)])

HasPrefix(name) ==
    \E sfx \in {SubSeq(name, i, Len(name)) : i \in 1..(Len(name) + 1)} :
        name = Prefix \o sfx

\* the index of a device name: its numeric suffix as a usize holds it
IndexOf(name) == Decimal(SuffixOf(name)) % Word

\* indices of the listed candidates on which this class was found
CandidateIds(class) ==
    { IndexOf(e.name) :
        e \in { x \in listed : /\ HasPrefix(x.name)
                                /\ AllDigits(SuffixOf(x.name))
                                /\ IndexOf(x.name) # 0
                                /\ x.class = class } }

MinOrZero(ids) ==
    IF ids = {} THEN 0 ELSE CHOOSE m \in ids : \A n \in ids : m <= n

C4_FailureIsNonMatch ==
    [][ cand' = "checked" /\ listed' # listed /\ result' = Err
        => /\ ce' = ce /\ ee' = ee
           /\ pc' = "loop"
           /\ exit' = exit /\ stdout' = stdout ]_vars

\* after mmcblk0p2 gave ce = 2, a device whose FAT filesystem does not open
C4_Witness ==
    /\ pc = "loop" /\ cand = "checked"
    /\ path.open /\ ~path.fat /\ result = Err
    /\ ce = 2 /\ ee = 0
    /\ Cardinality(listed) = 2

(***************************************************************************)
(* C5 as stated: scan returns an error only when /dev/block cannot be      *)
(* listed; every other execution reaches the end of the listing and prints *)
(* its line.                                                               *)
(***************************************************************************)
C5_OnlyListingFailureIsFatal ==
    /\ exit = "IOError" => cand \in {"read_dir", "entry"}
    /\ pc # "panic"
    /\ pc = "returned" /\ exit = "Ok" => Len(stdout) = 1

(***************************************************************************)
(* C6 as stated: id_from_bytes accepts exactly the non-empty strings of    *)
(* decimal digits and returns their base-10 value; it rejects the empty    *)
(* string and every string that holds a byte that is no digit.  Stated     *)
(* here for the release profile and for values a usize holds, where no     *)
(* overflow stands in the way (C10 is about those).                        *)
(***************************************************************************)
C6_AcceptsNonEmptyDigits ==
    pc = "returned" /\ ~overflow_checks =>
        /\ bytes # <<>> /\ AllDigits(bytes) /\ Decimal(bytes) < Word
              => parsed.status = "some" /\ parsed.id = Decimal(bytes)
        /\ bytes = <<>> => parsed.status = "none"
        /\ ~AllDigits(bytes) => parsed.status = "none"

(***************************************************************************)
(* C10 as stated: for every all-digit suffix whose value fits in a usize,  *)
(* id_from_bytes returns that value and neither id nor multiply overflows. *)
(***************************************************************************)
C10_NoOverflowWhenValueFits ==
    pc = "returned" /\ AllDigits(bytes) /\ Decimal(bytes) < Word =>
        /\ parsed.status = "some"
        /\ parsed.id = Decimal(bytes)
        /\ ~parsed.wrapped

====
